---- MODULE Spec2Model ----
(***************************************************************************)
(* The typing session engine of codesprint (the useTypingEngine hook):     *)
(* phase state machine, cursor and error tracking, auto-indentation and    *)
(* the keystroke counters.  Indices into the content are 0-based as in     *)
(* the source; CharAt converts to the 1-based sequences of TLA+.           *)
(*                                                                         *)
(* React state is held in the variables named after the useState cells.    *)
(* The handler reads phaseRef, startTimeRef and cursorIndexRef, which the  *)
(* hook refreshes in effects after each commit; state updates queued by a  *)
(* handler are applied in order.  Every event of Spec is followed by the   *)
(* commit and its effects before the next event is delivered.              *)
(***************************************************************************)
EXTENDS Integers, Sequences, FiniteSets, TLC

\* ---------------------------------------------------------------- bounds
MaxKeys == 3        \* counted key presses per run
MaxClock == 2       \* largest value of Date.now() explored
MaxLogKeys == 403   \* key presses of a run of repeated mistakes
MaxCount == 3       \* largest counter passed to computeMetrics directly
MaxTimers == 2      \* auto-advance timeouts pending when a further key is accepted
MaxScores == 2      \* leaderboard entries stored when a further key is accepted

\* ------------------------------------------------------ program constants
INDENT_WIDTH == 4
ErrorLogCap == 200
CountdownStart == 3

Null == -1                  \* the null of number | null cells
Undefined == "undefined"    \* content[i] outside the string

SP == " "
TAB == "\t"
LF == "\n"
CR == "\r"

Phases == {"idle", "countdown", "running", "finished"}

\* e.key values delivered to the handler
Modifiers == {"Meta", "Alt", "Control"}
Keys == {"a", SP, "Enter", "Tab", "Backspace", "Meta", "Shift"}

\* snippet contents explored
Contents ==
    { <<>>,
      <<"a", LF>>,
      <<"a", CR>>,
      <<"a", LF, SP, SP, "a">>,
      <<"a", LF, SP, SP>>,
      <<"a", LF, SP, LF>>,
      <<TAB, "a">>,
      <<"a", TAB>>,
      <<SP, SP, SP, SP, SP, "a">> }

VARIABLES
    content,              \* snippetRef.current.content
    snippet,              \* the content of the snippet prop of the last render
    requireTabForIndent,  \* preferences.requireTabForIndent
    countdownEnabled,     \* preferences.countdownEnabled
    clock,                \* Date.now()
    phase, countdown, cursorIndex, wrongChars, startTime, now, lastErrorAt,
    errorLog, totalTypedChars, totalKeystrokes, correctKeystrokes,
    phaseRef, startTimeRef, cursorIndexRef,
    finishCalls,          \* onFinish() calls since the last reset
    lastEvent,            \* the event handled last
    metricsInput,         \* the argument of a direct call of computeMetrics
    publishedMetrics,     \* the metrics the hook outputs
    timers,               \* the page's pending auto-advance timeouts
    autoAdvanceTimeoutRef,\* autoAdvanceTimeoutRef.current
    problemId,            \* index of the selected problem in problemOptions
    leaderboard           \* the stored leaderboard, best first

prefVars == <<content, snippet, requireTabForIndent, countdownEnabled>>
engVars == <<phase, countdown, cursorIndex, wrongChars, startTime, now, lastErrorAt,
             errorLog, totalTypedChars, totalKeystrokes, correctKeystrokes,
             phaseRef, startTimeRef, cursorIndexRef, finishCalls>>
metricVars == <<metricsInput, publishedMetrics>>
pageVars == <<timers, autoAdvanceTimeoutRef, problemId, leaderboard>>
vars == <<prefVars, engVars, clock, lastEvent, metricVars, pageVars>>

\* the engine as one record, for the handlers written as functions
Eng ==
    [ phase |-> phase, countdown |-> countdown, cursorIndex |-> cursorIndex,
      wrongChars |-> wrongChars, startTime |-> startTime, now |-> now,
      lastErrorAt |-> lastErrorAt, errorLog |-> errorLog,
      totalTypedChars |-> totalTypedChars, totalKeystrokes |-> totalKeystrokes,
      correctKeystrokes |-> correctKeystrokes,
      phaseRef |-> phaseRef, startTimeRef |-> startTimeRef,
      cursorIndexRef |-> cursorIndexRef, finishCalls |-> finishCalls ]

SetEng(r) ==
    /\ phase' = r.phase
    /\ countdown' = r.countdown
    /\ cursorIndex' = r.cursorIndex
    /\ wrongChars' = r.wrongChars
    /\ startTime' = r.startTime
    /\ now' = r.now
    /\ lastErrorAt' = r.lastErrorAt
    /\ errorLog' = r.errorLog
    /\ totalTypedChars' = r.totalTypedChars
    /\ totalKeystrokes' = r.totalKeystrokes
    /\ correctKeystrokes' = r.correctKeystrokes
    /\ phaseRef' = r.phaseRef
    /\ startTimeRef' = r.startTimeRef
    /\ cursorIndexRef' = r.cursorIndexRef
    /\ finishCalls' = r.finishCalls

\* ---------------------------------------------------------------- helpers
CharAt(c, i) == IF i >= 0 /\ i < Len(c) THEN c[i + 1] ELSE Undefined

\* variant: carriage return is not folded into newline
normalizeWhitespace_Identity(ch) == ch

normalizeWhitespace(ch) == IF ch = CR THEN LF ELSE ch

\* wrongChars without the indices lo .. hi-1
ClearRange(w, lo, hi) == w \ {i \in lo..(hi - 1) : TRUE}

RECURSIVE ScanWhitespace(_, _)
ScanWhitespace(c, target) ==
    IF target < Len(c) /\ CharAt(c, target) \in {SP, TAB}
    THEN ScanWhitespace(c, target + 1)
    ELSE target

\* variant: the line-start test is missing
autoAdvanceIndentationIfAllowed_AnyColumn(index) ==
    LET none == [advanced |-> 0, nextIndex |-> index]
        target == ScanWhitespace(content, index)
        advanced == target - index
        nextChar == CharAt(content, target)
        isBlankLine == nextChar = LF \/ nextChar = CR \/ nextChar = Undefined
    IN  IF Len(content) = 0 THEN none
        ELSE IF advanced = 0 THEN none
        ELSE IF requireTabForIndent /\ ~isBlankLine THEN none
        ELSE [advanced |-> advanced, nextIndex |-> target]

autoAdvanceIndentationIfAllowed(index) ==
    LET none == [advanced |-> 0, nextIndex |-> index]
        previousChar == IF index = 0 THEN LF ELSE CharAt(content, index - 1)
        target == ScanWhitespace(content, index)
        advanced == target - index
        nextChar == CharAt(content, target)
        isBlankLine == nextChar = LF \/ nextChar = CR \/ nextChar = Undefined
    IN  IF Len(content) = 0 THEN none
        ELSE IF index # 0 /\ previousChar # LF /\ previousChar # CR THEN none
        ELSE IF advanced = 0 THEN none
        ELSE IF requireTabForIndent /\ ~isBlankLine THEN none
        ELSE [advanced |-> advanced, nextIndex |-> target]

\* ------------------------------------------------------- handler pieces
\* variant: the run starts but the start time is never recorded
enterRunning_NoStartTime(s, phaseNow, ts) ==
    IF phaseNow # "idle" THEN s
    ELSE [s EXCEPT !.phaseRef = "running",
                   !.phase = "running",
                   !.countdown = Null]

\* leaving idle on an actionable key: phaseRef is written at once, the
\* start time only when startTimeRef is unset
enterRunning(s, phaseNow, ts) ==
    IF phaseNow # "idle" THEN s
    ELSE LET unset == s.startTimeRef = Null \/ s.startTimeRef = 0
         IN  [s EXCEPT !.phaseRef = "running",
                       !.phase = "running",
                       !.countdown = Null,
                       !.startTimeRef = IF unset THEN ts ELSE @,
                       !.startTime = IF unset THEN ts ELSE @,
                       !.now = IF unset THEN ts ELSE @]

countKeystroke(s) == [s EXCEPT !.totalKeystrokes = @ + 1]

\* the three updates queued when auto-indent applies; the wrongChars
\* updater clears from cursorIndexRef.current up to the new index
applyAutoAdvance(s, a) ==
    [s EXCEPT !.cursorIndex = a.nextIndex,
              !.totalTypedChars = @ + a.advanced,
              !.wrongChars = ClearRange(@, s.cursorIndexRef, a.nextIndex)]

\* variant: a Tab consumes one space at most
CountSpaces_OneOnly(effectiveIndex, advanced) ==
    IF CharAt(content, effectiveIndex) = SP THEN 1 ELSE 0

\* the spaces a manual Tab consumes, INDENT_WIDTH at most
RECURSIVE CountSpaces(_, _)
CountSpaces(effectiveIndex, advanced) ==
    IF /\ advanced < INDENT_WIDTH
       /\ effectiveIndex + advanced < Len(content)
       /\ CharAt(content, effectiveIndex + advanced) = SP
    THEN CountSpaces(effectiveIndex, advanced + 1)
    ELSE advanced

handleTab(s, ts) ==
    LET phaseNow == s.phaseRef
        s1 == countKeystroke(enterRunning(s, phaseNow, ts))
        first == autoAdvanceIndentationIfAllowed(s.cursorIndexRef)
        currentIndex == first.nextIndex
        s2 == IF first.advanced > 0 THEN applyAutoAdvance(s1, first) ELSE s1
        effectiveIndex == s.cursorIndexRef
        auto == autoAdvanceIndentationIfAllowed(effectiveIndex)
        advanced == CountSpaces(effectiveIndex, 0)
        expected == CharAt(content, effectiveIndex)
    IN  IF phaseNow = "finished" THEN s
        ELSE IF phaseNow = "countdown" THEN s
        ELSE IF currentIndex >= Len(content) THEN s2
        ELSE IF auto.advanced > 0 THEN applyAutoAdvance(s2, auto)
        ELSE IF advanced > 0 THEN
            [s2 EXCEPT !.cursorIndex = @ + advanced,
                       !.totalTypedChars = @ + advanced,
                       !.correctKeystrokes = @ + 1,
                       !.wrongChars = ClearRange(@, effectiveIndex, effectiveIndex + advanced)]
        ELSE IF expected = TAB THEN
            [s2 EXCEPT !.cursorIndex = @ + 1,
                       !.totalTypedChars = @ + 1,
                       !.correctKeystrokes = @ + 1,
                       !.wrongChars = @ \ {effectiveIndex}]
        ELSE s2

\* variant: the cursor steps back but wrongChars is left alone
handleBackspace_NoClear(s, phaseNow) ==
    LET s1 == IF phaseNow = "finished" THEN [s EXCEPT !.phase = "running"] ELSE s
        currentCursor == s.cursorIndexRef
    IN  IF currentCursor = 0 THEN s1
        ELSE [s1 EXCEPT !.cursorIndex = IF @ - 1 > 0 THEN @ - 1 ELSE 0]

\* variant: the index removed from wrongChars is the old cursor, not the vacated one
handleBackspace_OffByOne(s, phaseNow) ==
    LET s1 == IF phaseNow = "finished" THEN [s EXCEPT !.phase = "running"] ELSE s
        currentCursor == s.cursorIndexRef
        targetIndex == currentCursor
    IN  IF currentCursor = 0 THEN s1
        ELSE [s1 EXCEPT !.cursorIndex = IF @ - 1 > 0 THEN @ - 1 ELSE 0,
                        !.wrongChars = @ \ {targetIndex}]

\* variant: Backspace takes the deleted character out of totalTypedChars
handleBackspace_Uncounts(s, phaseNow) ==
    LET s1 == IF phaseNow = "finished" THEN [s EXCEPT !.phase = "running"] ELSE s
        currentCursor == s.cursorIndexRef
        targetIndex == currentCursor - 1
    IN  IF currentCursor = 0 THEN s1
        ELSE [s1 EXCEPT !.cursorIndex = IF @ - 1 > 0 THEN @ - 1 ELSE 0,
                        !.wrongChars = @ \ {targetIndex},
                        !.totalTypedChars = @ - 1]

handleBackspace(s, phaseNow) ==
    LET s1 == IF phaseNow = "finished" THEN [s EXCEPT !.phase = "running"] ELSE s
        currentCursor == s.cursorIndexRef
        targetIndex == currentCursor - 1
    IN  IF currentCursor = 0 THEN s1
        ELSE [s1 EXCEPT !.cursorIndex = IF @ - 1 > 0 THEN @ - 1 ELSE 0,
                        !.wrongChars = @ \ {targetIndex}]

\* variant: the remaining character is not tested for being a newline
isComplete_AnyLastChar(currentIndex) ==
    LET nextIdx == currentIndex + 1
    IN  nextIdx >= Len(content) - 1

\* completion test after a correct keystroke at currentIndex
isComplete(currentIndex) ==
    LET nextIdx == currentIndex + 1
        isEnd == nextIdx >= Len(content)
        isTrailingNewline == nextIdx = Len(content) - 1 /\ CharAt(content, nextIdx) = LF
    IN  isEnd \/ isTrailingNewline

\* variant: at the cap the newest entry is dropped, not the oldest
appendError_DropsNewest(log, entry) ==
    LET next == Append(log, entry)
    IN  IF Len(next) > ErrorLogCap THEN SubSeq(next, 1, ErrorLogCap) ELSE next

\* variant: the oldest entry is dropped on every append
appendError_AlwaysShift(log, entry) == Tail(Append(log, entry))

appendError(log, entry) ==
    LET next == Append(log, entry)
    IN  IF Len(next) > ErrorLogCap THEN Tail(next) ELSE next

\* variant: a mismatch does not move the cursor
compareKey_Blocking(s, currentIndex, key, ts) ==
    LET expected == CharAt(content, currentIndex)
        got == IF key = "Enter" THEN LF ELSE key
        ok == normalizeWhitespace(got) = normalizeWhitespace(expected)
        s2 == [s EXCEPT !.cursorIndex = @ + 1, !.totalTypedChars = @ + 1]
    IN  IF ok THEN
            LET s3 == [s2 EXCEPT !.correctKeystrokes = @ + 1,
                                 !.wrongChars = @ \ {currentIndex}]
            IN  IF isComplete(currentIndex)
                THEN [s3 EXCEPT !.phase = "finished", !.finishCalls = @ + 1]
                ELSE s3
        ELSE [s EXCEPT !.wrongChars = @ \cup {currentIndex},
                       !.lastErrorAt = ts,
                       !.now = ts,
                       !.errorLog = appendError(@, [expected |-> expected, got |-> got, index |-> currentIndex])]

\* the comparison of the pressed key with content[currentIndex]
compareKey(s, currentIndex, key, ts) ==
    LET expected == CharAt(content, currentIndex)
        got == IF key = "Enter" THEN LF ELSE key
        ok == normalizeWhitespace(got) = normalizeWhitespace(expected)
        s2 == [s EXCEPT !.cursorIndex = @ + 1, !.totalTypedChars = @ + 1]
    IN  IF ok THEN
            LET s3 == [s2 EXCEPT !.correctKeystrokes = @ + 1,
                                 !.wrongChars = @ \ {currentIndex}]
            IN  IF isComplete(currentIndex)
                THEN [s3 EXCEPT !.phase = "finished", !.finishCalls = @ + 1]
                ELSE s3
        ELSE [s2 EXCEPT !.wrongChars = @ \cup {currentIndex},
                        !.lastErrorAt = ts,
                        !.now = ts,
                        !.errorLog = appendError(@, [expected |-> expected, got |-> got, index |-> currentIndex])]

\* variant: no return when content[currentIndex] is undefined
handleTyping_NoEndCheck(s, key, ts) ==
    LET a == autoAdvanceIndentationIfAllowed(s.cursorIndexRef)
        currentIndex == a.nextIndex
        s1 == IF a.advanced > 0 THEN applyAutoAdvance(s, a) ELSE s
    IN  compareKey(s1, currentIndex, key, ts)

handleTyping(s, key, ts) ==
    LET a == autoAdvanceIndentationIfAllowed(s.cursorIndexRef)
        currentIndex == a.nextIndex
        s1 == IF a.advanced > 0 THEN applyAutoAdvance(s, a) ELSE s
        expected == CharAt(content, currentIndex)
    IN  IF expected = Undefined THEN s1
        ELSE compareKey(s1, currentIndex, key, ts)

\* variant: Enter is not an actionable key
actionable_NoEnter(key) == key = "Backspace" \/ Len(key) = 1

actionable(key) == key = "Backspace" \/ key = "Enter" \/ Len(key) = 1

\* variant: keys are not rejected while finished
handleKeyDown_NoFinishedReject(s, key, ts) ==
    LET phaseNow == s.phaseRef
        s1 == countKeystroke(enterRunning(s, phaseNow, ts))
    IN  IF key \in Modifiers THEN s
        ELSE IF key = "Tab" THEN handleTab(s, ts)
        ELSE IF ~actionable(key) THEN s
        ELSE IF phaseNow = "countdown" THEN s
        ELSE IF key = "Backspace" THEN handleBackspace(s1, phaseNow)
        ELSE handleTyping(s1, key, ts)

\* variant: the keystroke is counted before the modifier test
handleKeyDown_ModifiersCounted(s, key, ts) ==
    LET phaseNow == s.phaseRef
        s1 == countKeystroke(enterRunning(s, phaseNow, ts))
    IN  IF key \in Modifiers THEN countKeystroke(s)
        ELSE IF key = "Tab" THEN handleTab(s, ts)
        ELSE IF ~actionable(key) THEN s
        ELSE IF phaseNow = "finished" /\ key # "Backspace" THEN s
        ELSE IF phaseNow = "countdown" THEN s
        ELSE IF key = "Backspace" THEN handleBackspace(s1, phaseNow)
        ELSE handleTyping(s1, key, ts)

\* variant: a key during the countdown starts the run (earlier revision)
handleKeyDown_CountdownKeyStarts(s, key, ts) ==
    LET phaseNow == s.phaseRef
        from == IF phaseNow = "countdown" THEN "idle" ELSE phaseNow
        s1 == countKeystroke(enterRunning(s, from, ts))
    IN  IF key \in Modifiers THEN s
        ELSE IF key = "Tab" THEN handleTab(s, ts)
        ELSE IF ~actionable(key) THEN s
        ELSE IF phaseNow = "finished" /\ key # "Backspace" THEN s
        ELSE IF key = "Backspace" THEN handleBackspace(s1, phaseNow)
        ELSE handleTyping(s1, key, ts)

handleKeyDown(s, key, ts) ==
    LET phaseNow == s.phaseRef
        s1 == countKeystroke(enterRunning(s, phaseNow, ts))
    IN  IF key \in Modifiers THEN s
        ELSE IF key = "Tab" THEN handleTab(s, ts)
        ELSE IF ~actionable(key) THEN s
        ELSE IF phaseNow = "finished" /\ key # "Backspace" THEN s
        ELSE IF phaseNow = "countdown" THEN s
        ELSE IF key = "Backspace" THEN handleBackspace(s1, phaseNow)
        ELSE handleTyping(s1, key, ts)

\* variant: the error log survives a reset
reset_KeepsErrorLog(s, ts) ==
    [s EXCEPT !.phase = "idle", !.countdown = Null, !.cursorIndex = 0,
              !.wrongChars = {}, !.startTime = Null, !.now = ts,
              !.lastErrorAt = Null,
              !.totalTypedChars = 0, !.totalKeystrokes = 0, !.correctKeystrokes = 0]

reset(s, ts) ==
    [s EXCEPT !.phase = "idle", !.countdown = Null, !.cursorIndex = 0,
              !.wrongChars = {}, !.startTime = Null, !.now = ts,
              !.lastErrorAt = Null, !.errorLog = <<>>,
              !.totalTypedChars = 0, !.totalKeystrokes = 0, !.correctKeystrokes = 0]

\* variant: the countdown preference is ignored
start_NoCountdown(s, ts) ==
    [s EXCEPT !.phase = "running", !.startTime = ts, !.now = ts]

start(s, ts) ==
    IF countdownEnabled
    THEN [s EXCEPT !.phase = "countdown", !.countdown = CountdownStart]
    ELSE [s EXCEPT !.phase = "running", !.startTime = ts, !.now = ts]

\* variant: the updater does not test for a cancelled countdown
countdownTick_NoNullGuard(s, ts) ==
    IF s.countdown <= 1
    THEN [s EXCEPT !.phase = "running", !.startTime = ts, !.now = ts, !.countdown = Null]
    ELSE [s EXCEPT !.countdown = @ - 1]

\* variant: the last tick enters running without recording startTime
countdownTick_NoStartTime(s, ts) ==
    IF s.countdown = Null THEN s
    ELSE IF s.countdown <= 1
    THEN [s EXCEPT !.phase = "running", !.now = ts, !.countdown = Null]
    ELSE [s EXCEPT !.countdown = @ - 1]

\* the updater of the countdown interval
countdownTick(s, ts) ==
    IF s.countdown = Null THEN s
    ELSE IF s.countdown <= 1
    THEN [s EXCEPT !.phase = "running", !.startTime = ts, !.now = ts, !.countdown = Null]
    ELSE [s EXCEPT !.countdown = @ - 1]

\* the effects that follow a commit refresh the refs
commitEffects(s) ==
    [s EXCEPT !.phaseRef = s.phase,
              !.startTimeRef = s.startTime,
              !.cursorIndexRef = s.cursorIndex]

\* one delivered key: the handler, then the commit and its effects
keyDownStep(s, key, ts) == commitEffects(handleKeyDown(s, key, ts))

\* --------------------------------------------------------------- metrics
\* JavaScript numbers are modelled as exact fractions in lowest terms
RECURSIVE GCD(_, _)
GCD(a, b) == IF b = 0 THEN a ELSE GCD(b, a % b)

Abs(x) == IF x < 0 THEN -x ELSE x

Frac(n, d) ==
    LET g == GCD(Abs(n), Abs(d))
        sgn == IF d < 0 THEN -1 ELSE 1
    IN  [num |-> (sgn * n) \div g, den |-> (sgn * d) \div g]

Num(n) == [num |-> n, den |-> 1]
FracDiv(x, y) == Frac(x.num * y.den, x.den * y.num)
FracMul(x, y) == Frac(x.num * y.num, x.den * y.den)
FracLeq(x, y) == x.num * y.den <= y.num * x.den
FracMax(x, y) == IF FracLeq(x, y) THEN y ELSE x
FracMin(x, y) == IF FracLeq(x, y) THEN x ELSE y

MS_IN_MINUTE == 1000 * 60

\* an optional number is <<>> when absent and <<n>> when given
Given(n) == <<n>>
Absent == <<>>

rawWpmOf(in) ==
    LET minutes == FracDiv(Num(in.elapsedMs), Num(MS_IN_MINUTE))
        rawCount == IF in.totalKeystrokes = Absent THEN in.totalTyped
                    ELSE in.totalKeystrokes[1]
    IN  FracDiv(FracDiv(Num(rawCount), Num(5)), minutes)

adjustedWpmOf(in) ==
    LET minutes == FracDiv(Num(in.elapsedMs), Num(MS_IN_MINUTE))
    IN  FracMax(Num(0), FracDiv(FracDiv(Num(in.correctProgress), Num(5)), minutes))

\* variant: the ratio is not capped at 1
accuracyOf_NoClamp(in) ==
    IF in.totalKeystrokes = Absent \/ in.totalKeystrokes[1] <= 0
    THEN Num(1)
    ELSE FracDiv(Num(IF in.correctKeystrokes = Absent THEN in.correctProgress
                     ELSE in.correctKeystrokes[1]),
                 Num(in.totalKeystrokes[1]))

accuracyOf(in) ==
    IF in.totalKeystrokes = Absent \/ in.totalKeystrokes[1] = 0
          \/ in.totalKeystrokes[1] <= 0
    THEN Num(1)
    ELSE FracMin(Num(1),
                 FracDiv(Num(IF in.correctKeystrokes = Absent THEN in.correctProgress
                             ELSE in.correctKeystrokes[1]),
                         Num(in.totalKeystrokes[1])))

\* variant: without time, accuracy is 1 only if nothing was typed
computeMetrics_AccuracyFromTyped(in) ==
    IF in.elapsedMs <= 0
    THEN [rawWpm |-> Num(0), adjustedWpm |-> Num(0),
          accuracy |-> IF in.totalTyped = 0 THEN Num(1) ELSE Num(0)]
    ELSE [rawWpm |-> rawWpmOf(in), adjustedWpm |-> adjustedWpmOf(in),
          accuracy |-> accuracyOf(in)]

computeMetrics(in) ==
    IF in.elapsedMs <= 0
    THEN [rawWpm |-> Num(0), adjustedWpm |-> Num(0), accuracy |-> Num(1)]
    ELSE [rawWpm |-> rawWpmOf(in), adjustedWpm |-> adjustedWpmOf(in),
          accuracy |-> accuracyOf(in)]

\* the perfect-word scan of calculateAndPublishMetrics, from index i on
RECURSIVE PerfectScan(_, _, _, _, _, _)
PerfectScan(c, idx, errs, i, wordStart, perfectChars) ==
    IF i > idx THEN perfectChars
    ELSE LET char == CharAt(c, i)
             isWordEnd == i = Len(c) \/ char = SP \/ char = LF \/ char = TAB
             isPerfect == \A j \in wordStart..(i - 1) : j \notin errs
             word == IF isPerfect /\ i > wordStart
                     THEN (i - wordStart) + (IF i < idx /\ i \notin errs THEN 1 ELSE 0)
                     ELSE 0
         IN  IF isWordEnd
             THEN PerfectScan(c, idx, errs, i + 1, i + 1, perfectChars + word)
             ELSE PerfectScan(c, idx, errs, i + 1, wordStart, perfectChars)

\* variant: the separator after a perfect word is never counted
getPerfectWordChars_NoSeparator(c, idx, errs) ==
    PerfectScan(c, idx, errs \cup {i \in 0..idx : CharAt(c, i) \in {SP, LF, TAB}}, 0, 0, 0)

getPerfectWordChars(c, idx, errs) == PerfectScan(c, idx, errs, 0, 0, 0)

\* the metrics computed from the synced metricsInputRef at time ts
calculateAndPublishMetrics(s, c, ts) ==
    LET elapsed == IF s.startTime # Null /\ s.startTime # 0 THEN ts - s.startTime ELSE 0
    IN  computeMetrics([correctProgress |-> getPerfectWordChars(c, s.cursorIndex, s.wrongChars),
                        elapsedMs |-> elapsed,
                        totalTyped |-> s.totalTypedChars,
                        totalKeystrokes |-> Given(s.totalKeystrokes),
                        correctKeystrokes |-> Given(s.correctKeystrokes)])

\* the initial value of the publishedMetrics cell
InitialMetrics == [rawWpm |-> Num(0), adjustedWpm |-> Num(0), accuracy |-> Num(1)]

\* the value of metricsInput while computeMetrics is not called directly
NoInput ==
    [correctProgress |-> 0, elapsedMs |-> 0, totalTyped |-> 0,
     totalKeystrokes |-> Absent, correctKeystrokes |-> Absent]

\* ------------------------------------------------------------------ Init
\* the page before any run: no auto-advance timer, the first problem
\* selected, nothing stored
PageInit ==
    /\ timers = {}
    /\ autoAdvanceTimeoutRef = Null
    /\ problemId = 0
    /\ leaderboard = <<>>

EngineInit(contents) ==
    /\ content \in contents
    /\ snippet = content
    /\ requireTabForIndent \in BOOLEAN
    /\ countdownEnabled \in BOOLEAN
    /\ clock = 1
    /\ phase = "idle"
    /\ countdown = Null
    /\ cursorIndex = 0
    /\ wrongChars = {}
    /\ startTime = Null
    /\ now = 1
    /\ lastErrorAt = Null
    /\ errorLog = <<>>
    /\ totalTypedChars = 0
    /\ totalKeystrokes = 0
    /\ correctKeystrokes = 0
    /\ phaseRef = "idle"
    /\ startTimeRef = Null
    /\ cursorIndexRef = 0
    /\ finishCalls = 0
    /\ lastEvent = [op |-> "init", key |-> ""]

\* the published metrics are an output that no handler reads; they are
\* followed in PublishSpec and held at their initial value elsewhere
Init ==
    /\ EngineInit(Contents)
    /\ metricsInput = NoInput
    /\ publishedMetrics = InitialMetrics
    /\ PageInit

\* --------------------------------------------------------------- actions
\* the keydown listener runs the handler; the commit and its effects follow
DeliverKey(key) ==
    /\ SetEng(keyDownStep(Eng, key, clock))
    /\ lastEvent' = [op |-> "key", key |-> key]
    /\ UNCHANGED <<prefVars, clock, metricVars, pageVars>>

KeyDown(key) ==
    /\ totalKeystrokes < MaxKeys
    /\ DeliverKey(key)

Reset ==
    /\ SetEng(commitEffects([reset(Eng, clock) EXCEPT !.finishCalls = 0]))
    /\ lastEvent' = [op |-> "reset", key |-> ""]
    /\ UNCHANGED <<prefVars, clock, metricVars, pageVars>>

Start ==
    /\ SetEng(commitEffects(start(Eng, clock)))
    /\ lastEvent' = [op |-> "start", key |-> ""]
    /\ UNCHANGED <<prefVars, clock, metricVars, pageVars>>

CountdownTick ==
    /\ phase = "countdown"
    /\ countdown # Null
    /\ SetEng(commitEffects(countdownTick(Eng, clock)))
    /\ lastEvent' = [op |-> "countdownTick", key |-> ""]
    /\ UNCHANGED <<prefVars, clock, metricVars, pageVars>>

\* variant: the tick also moves the cursor on
TimerTick_MovesCursor ==
    /\ phase = "running"
    /\ SetEng(commitEffects([Eng EXCEPT !.now = clock, !.cursorIndex = @ + 1]))
    /\ lastEvent' = [op |-> "timerTick", key |-> ""]
    /\ UNCHANGED <<prefVars, clock, metricVars, pageVars>>

TimerTick ==
    /\ phase = "running"
    /\ SetEng(commitEffects([Eng EXCEPT !.now = clock]))
    /\ lastEvent' = [op |-> "timerTick", key |-> ""]
    /\ UNCHANGED <<prefVars, clock, metricVars, pageVars>>

AdvanceClock ==
    /\ clock < MaxClock
    /\ clock' = clock + 1
    /\ UNCHANGED <<prefVars, engVars, lastEvent, metricVars, pageVars>>

Next ==
    \/ \E key \in Keys : KeyDown(key)
    \/ Reset
    \/ Start
    \/ CountdownTick
    \/ TimerTick
    \/ AdvanceClock

Spec == Init /\ [][Next]_vars

\* ------------------------------------------- the page changes the snippet
\* contents the snippet selection switches between
SnippetContents == { <<"a", LF>>, <<"a", LF, SP, SP, "a">> }

SnippetInit == Init /\ content \in SnippetContents

\* a render commits with another snippet selected (language or length
\* picked while the controls are enabled); the engine state cells and the
\* refs are those of the previous render
SnippetChange ==
    /\ snippet = content
    /\ phase \notin {"running", "countdown"}
    /\ \E c \in SnippetContents \ {snippet} : snippet' = c
    /\ lastEvent' = [op |-> "snippet", key |-> ""]
    /\ UNCHANGED <<content, requireTabForIndent, countdownEnabled, engVars, clock, metricVars, pageVars>>

\* the effects of that commit: snippetRef is refreshed and the page calls
\* resetEngine(), whose updates are then rendered
SnippetEffects ==
    /\ snippet # content
    /\ content' = snippet
    /\ SetEng(commitEffects([reset(Eng, clock) EXCEPT !.finishCalls = 0]))
    /\ lastEvent' = [op |-> "snippetEffects", key |-> ""]
    /\ UNCHANGED <<snippet, requireTabForIndent, countdownEnabled, clock, metricVars, pageVars>>

SnippetNext ==
    \/ Next
    \/ SnippetChange
    \/ SnippetEffects

SnippetSpec == SnippetInit /\ [][SnippetNext]_vars

\* --------------------------------------- a long run of repeated mistakes
\* the first character is typed wrongly and taken back, over and over; the
\* wrong key is a space, or Enter while no Enter mistake is in the log
LogWrongKeys == {SP, "Enter"}

LogInit ==
    /\ Init
    /\ content = <<"a", LF>>
    /\ ~requireTabForIndent
    /\ ~countdownEnabled

LogMistake(key) ==
    /\ cursorIndex = 0
    /\ totalKeystrokes < MaxLogKeys
    /\ key = "Enter" => \A i \in 1..Len(errorLog) : errorLog[i].got # LF
    /\ DeliverKey(key)

LogTakeBack ==
    /\ cursorIndex > 0
    /\ DeliverKey("Backspace")

LogNext ==
    \/ \E key \in LogWrongKeys : LogMistake(key)
    \/ LogTakeBack
    \/ Reset

LogSpec == LogInit /\ [][LogNext]_vars

\* ------------------------------------------------- the timers keep firing
\* the page offers Start only in phase idle, and restarts (reset, then start)
\* on the r shortcut outside a run; the countdown interval and the 100 ms
\* timer fire for as long as their effect is mounted
LiveContents == { <<>>, <<"a", LF>> }

LiveInit == Init /\ content \in LiveContents

StartButton ==
    /\ phase = "idle"
    /\ Start

Restart ==
    /\ phase # "running"
    /\ SetEng(commitEffects(start([reset(Eng, clock) EXCEPT !.finishCalls = 0], clock)))
    /\ lastEvent' = [op |-> "restart", key |-> ""]
    /\ UNCHANGED <<prefVars, clock, metricVars, pageVars>>

LiveNext ==
    \/ \E key \in Keys : KeyDown(key)
    \/ Reset
    \/ StartButton
    \/ Restart
    \/ CountdownTick
    \/ TimerTick
    \/ AdvanceClock

LiveSpec ==
    /\ LiveInit
    /\ [][LiveNext]_vars
    /\ WF_vars(CountdownTick)
    /\ WF_vars(TimerTick)

\* ----------------------------------------------- the error flash over time
\* the flash lasts 600 ms; here the clock moves in steps of that length
FlashMs == 600

caretErrorActive(s) ==
    /\ s.lastErrorAt # Null
    /\ s.now >= s.lastErrorAt
    /\ s.now - s.lastErrorAt < FlashMs

FlashInit == Init /\ content = <<"a", LF>>

AdvanceFlash ==
    /\ clock < MaxClock * FlashMs
    /\ clock' = clock + FlashMs
    /\ UNCHANGED <<prefVars, engVars, lastEvent, metricVars, pageVars>>

FlashNext ==
    \/ \E key \in Keys : KeyDown(key)
    \/ Reset
    \/ StartButton
    \/ CountdownTick
    \/ TimerTick
    \/ AdvanceFlash

FlashSpec ==
    /\ FlashInit
    /\ [][FlashNext]_vars
    /\ WF_vars(CountdownTick)
    /\ WF_vars(TimerTick)

\* ------------------------------------------- computeMetrics called directly
ElapsedValues == {-1, 0, 1, 7, 1500, MS_IN_MINUTE}

MetricsInputs ==
    [ correctProgress : -1..MaxCount,
      elapsedMs : ElapsedValues,
      totalTyped : 0..MaxCount,
      totalKeystrokes : {Absent} \cup {Given(n) : n \in -1..MaxCount},
      correctKeystrokes : {Absent} \cup {Given(n) : n \in 0..(MaxCount + 1)} ]

MetricsInit ==
    /\ EngineInit({<<>>})
    /\ ~requireTabForIndent
    /\ ~countdownEnabled
    /\ metricsInput \in MetricsInputs
    /\ publishedMetrics = InitialMetrics
    /\ PageInit

Compute ==
    /\ publishedMetrics' = computeMetrics(metricsInput)
    /\ lastEvent' = [op |-> "computeMetrics", key |-> ""]
    /\ UNCHANGED <<prefVars, engVars, clock, metricsInput, pageVars>>

MetricsNext == Compute

MetricsSpec == MetricsInit /\ [][MetricsNext]_vars

\* --------------------------------- the progress count on every typed prefix
\* a run in progress: every prefix of the content typed, any of its
\* characters typed wrongly, one millisecond after its start
ProgressContents ==
    { <<>>,
      <<"a", SP, "a">>,
      <<"a", SP, SP, "a">>,
      <<"a", "a", LF>>,
      <<"a", CR, "a">>,
      <<TAB, "a">>,
      <<"a", LF, SP, "a">>,
      <<"a", TAB, "a", SP>> }

ProgressInit ==
    /\ content \in ProgressContents
    /\ snippet = content
    /\ requireTabForIndent = FALSE
    /\ countdownEnabled = FALSE
    /\ clock = 2
    /\ phase = "running"
    /\ countdown = Null
    /\ cursorIndex \in 0..Len(content)
    /\ wrongChars \in SUBSET (0..(cursorIndex - 1))
    /\ startTime = 1
    /\ now = 1
    /\ lastErrorAt = Null
    /\ errorLog = <<>>
    /\ totalTypedChars = cursorIndex
    /\ totalKeystrokes = cursorIndex
    /\ correctKeystrokes = cursorIndex - Cardinality(wrongChars)
    /\ phaseRef = "running"
    /\ startTimeRef = 1
    /\ cursorIndexRef = cursorIndex
    /\ finishCalls = 0
    /\ lastEvent = [op |-> "init", key |-> ""]
    /\ metricsInput = NoInput
    /\ publishedMetrics = InitialMetrics
    /\ PageInit

\* the 1500 ms interval of the running phase publishes the metrics
PublishTick ==
    /\ phase = "running"
    /\ publishedMetrics' = calculateAndPublishMetrics(Eng, snippet, clock)
    /\ lastEvent' = [op |-> "publish", key |-> ""]
    /\ UNCHANGED <<prefVars, engVars, clock, metricsInput, pageVars>>

ProgressNext == PublishTick

ProgressSpec == ProgressInit /\ [][ProgressNext]_vars

\* --------------------------------------------- the engine with its metrics
\* after a commit that changed the phase, the publishing effects run: on
\* entering running, and on entering finished or idle
publishEffects_NotOnFinish(oldPhase, r, c, ts, published) ==
    IF r.phase # oldPhase /\ r.phase \in {"running", "idle"}
    THEN calculateAndPublishMetrics(r, c, ts)
    ELSE published

publishEffects(oldPhase, r, c, ts, published) ==
    IF r.phase # oldPhase /\ r.phase \in {"running", "finished", "idle"}
    THEN calculateAndPublishMetrics(r, c, ts)
    ELSE published

\* contents without indentation (requireTabForIndent plays no part)
PublishContents ==
    { <<"a", SP, "a">>,
      <<"a", "a">>,
      <<"a", LF, "a">>,
      <<"a", LF>> }

PublishInit ==
    /\ EngineInit(PublishContents)
    /\ ~requireTabForIndent
    /\ metricsInput = NoInput
    /\ publishedMetrics = InitialMetrics
    /\ PageInit

\* an event, the commit and the effects of the engine
CommitEngine(r, event) ==
    /\ SetEng(r)
    /\ lastEvent' = event
    /\ publishedMetrics' = publishEffects(phase, r, snippet, clock, publishedMetrics)
    /\ UNCHANGED <<prefVars, clock, metricsInput>>

\* an event, the commit and all its effects
Committed(r, event) ==
    /\ CommitEngine(r, event)
    /\ UNCHANGED pageVars

PubKeyDown(key) ==
    /\ totalKeystrokes < MaxKeys
    /\ Committed(keyDownStep(Eng, key, clock), [op |-> "key", key |-> key])

PubReset ==
    LET r == commitEffects([reset(Eng, clock) EXCEPT !.finishCalls = 0])
    IN  Committed(r, [op |-> "reset", key |-> ""])

PubStart ==
    /\ phase = "idle"
    /\ Committed(commitEffects(start(Eng, clock)), [op |-> "start", key |-> ""])

PubCountdownTick ==
    /\ phase = "countdown"
    /\ countdown # Null
    /\ Committed(commitEffects(countdownTick(Eng, clock)),
                 [op |-> "countdownTick", key |-> ""])

PublishNext ==
    \/ \E key \in Keys : PubKeyDown(key)
    \/ PubReset
    \/ PubStart
    \/ PubCountdownTick
    \/ TimerTick
    \/ PublishTick
    \/ AdvanceClock

PublishSpec == PublishInit /\ [][PublishNext]_vars

\* ------------------------------------------ a timer firing around a reset
\* an interval callback that fires after reset() has queued its updates and
\* before the commit clears the interval: its update is applied after those
\* of reset, in the same render
ResetThenCountdownTick ==
    /\ phase = "countdown"
    /\ countdown # Null
    /\ SetEng(commitEffects(countdownTick([reset(Eng, clock) EXCEPT !.finishCalls = 0], clock)))
    /\ lastEvent' = [op |-> "resetThenCountdownTick", key |-> ""]
    /\ UNCHANGED <<prefVars, clock, metricVars, pageVars>>

ResetThenTimerTick ==
    /\ phase = "running"
    /\ SetEng(commitEffects([reset(Eng, clock) EXCEPT !.finishCalls = 0, !.now = clock]))
    /\ lastEvent' = [op |-> "resetThenTimerTick", key |-> ""]
    /\ UNCHANGED <<prefVars, clock, metricVars, pageVars>>

TimerInit == Init /\ content \in LiveContents

TimerNext ==
    \/ \E key \in Keys : KeyDown(key)
    \/ Reset
    \/ ResetThenCountdownTick
    \/ ResetThenTimerTick
    \/ StartButton
    \/ Restart
    \/ CountdownTick
    \/ TimerTick
    \/ AdvanceClock

TimerSpec == TimerInit /\ [][TimerNext]_vars

\* ---------------------------------------------------------------------
\* The engine on contents whose lines end in a carriage return: Enter is
\* accepted for "\r" (normalizeWhitespace) and indentation after it is
\* skipped (autoAdvanceIndentationIfAllowed), the steps are those of Next.
CarriageContents ==
    { <<"a", CR, SP, "a">>, <<"a", CR, "a">>, <<"a", CR, LF, "a">> }

CarriageInit ==
    /\ EngineInit(CarriageContents)
    /\ metricsInput = NoInput
    /\ publishedMetrics = InitialMetrics
    /\ PageInit

CarriageSpec == CarriageInit /\ [][Next]_vars

\* ---------------------------------------------------------------------
\* A typist who presses, for the character the handler compares next (the
\* one after any indentation autoAdvanceIndentationIfAllowed skips), the key
\* that produces it: Enter for a line end, Tab for a tab character, the
\* character's own key otherwise. Past the content end there is no such key.
MatchingKey(ch) ==
    IF ch \in {LF, CR} THEN "Enter" ELSE IF ch = TAB THEN "Tab" ELSE ch

TypeMatching ==
    /\ phase \in {"idle", "running"}
    /\ LET expected == CharAt(content, autoAdvanceIndentationIfAllowed(cursorIndex).nextIndex)
       IN  /\ expected # Undefined
           /\ DeliverKey(MatchingKey(expected))

TypistContents == Contents \ { <<>> }

TypistInit ==
    /\ EngineInit(TypistContents)
    /\ metricsInput = NoInput
    /\ publishedMetrics = InitialMetrics
    /\ PageInit

TypistNext ==
    \/ TypeMatching
    \/ TimerTick
    \/ AdvanceClock

TypistSpec == TypistInit /\ [][TypistNext]_vars /\ WF_vars(TypeMatching)

\* ---------------------------------------------------------------------
\* The page around the engine: the finished notification schedules the
\* switch to the next problem, and the page's shortcuts and buttons reset
\* the engine or switch the problem themselves.
AutoAdvanceDelayMs == 3000

\* the snippet shown for each of the two problems
AdvanceProblems == << <<"a", LF>>, <<"a", "a">> >>

ProblemContent(p) == AdvanceProblems[p + 1]

\* window.setTimeout hands out an id no pending timeout has
FreshTimeoutId ==
    CHOOSE n \in 1..(Cardinality(timers) + 1) :
        /\ \A t \in timers : t.id # n
        /\ \A m \in 1..(n - 1) : \E t \in timers : t.id = m

\* window.clearTimeout(autoAdvanceTimeoutRef.current)
clearAutoAdvance(pending, ref) ==
    IF ref # Null THEN {t \in pending : t.id # ref} ELSE pending

\* onFinish: a timeout for handleNextProblem of this render, 3000 ms ahead;
\* the id goes into the ref, over whatever it held
onFinish(ts) ==
    LET id == FreshTimeoutId
    IN  /\ timers' = timers \cup
                       {[id |-> id, problem |-> problemId, deadline |-> ts + AutoAdvanceDelayMs]}
        /\ autoAdvanceTimeoutRef' = id

\* handleNextProblem as created in the render that showed problem `from`,
\* with the timeouts `pending` and the ref `ref`: the timeout of the ref is
\* cleared and the next problem selected; when that changes the selection
\* the snippet changes, and the effect of the new snippet resets the engine
handleNextProblem(from, pending, ref, event) ==
    LET nextProblem == (from + 1) % Len(AdvanceProblems)
    IN  /\ timers' = clearAutoAdvance(pending, ref)
        /\ autoAdvanceTimeoutRef' = Null
        /\ lastEvent' = event
        /\ problemId' = nextProblem
        /\ IF nextProblem # problemId
           THEN /\ content' = ProblemContent(nextProblem)
                /\ snippet' = ProblemContent(nextProblem)
                /\ SetEng(commitEffects([reset(Eng, clock) EXCEPT !.finishCalls = 0]))
           ELSE UNCHANGED <<content, snippet, engVars>>
        /\ UNCHANGED <<requireTabForIndent, countdownEnabled, clock, metricVars, leaderboard>>

AdvanceInit ==
    /\ EngineInit({ProblemContent(0)})
    /\ requireTabForIndent = FALSE
    /\ metricsInput = NoInput
    /\ publishedMetrics = InitialMetrics
    /\ PageInit

\* a key the page passes to the engine; completing the content calls onFinish
PageKeyDown(key) ==
    LET r == keyDownStep(Eng, key, clock)
    IN  /\ totalKeystrokes < MaxKeys
        /\ Cardinality(timers) < MaxTimers
        /\ SetEng(r)
        /\ lastEvent' = [op |-> "key", key |-> key]
        /\ IF r.finishCalls > finishCalls
           THEN onFinish(clock)
           ELSE UNCHANGED <<timers, autoAdvanceTimeoutRef>>
        /\ UNCHANGED <<prefVars, clock, metricVars, problemId, leaderboard>>

\* Replay on the result card: resetEngine()
Replay ==
    /\ phase = "finished"
    /\ Reset

\* Escape during a run or a countdown: the timeout of the ref is cleared, then resetEngine()
Escape ==
    /\ phase \in {"running", "countdown"}
    /\ timers' = clearAutoAdvance(timers, autoAdvanceTimeoutRef)
    /\ autoAdvanceTimeoutRef' = Null
    /\ SetEng(commitEffects([reset(Eng, clock) EXCEPT !.finishCalls = 0]))
    /\ lastEvent' = [op |-> "escape", key |-> ""]
    /\ UNCHANGED <<prefVars, clock, metricVars, problemId, leaderboard>>

\* the n shortcut outside a run, or the Next problem button
NextProblem ==
    /\ phase # "running"
    /\ handleNextProblem(problemId, timers, autoAdvanceTimeoutRef,
                         [op |-> "nextProblem", key |-> ""])

\* a timeout that is due fires: the ref is cleared if it holds this id, then
\* the handleNextProblem captured when the timeout was scheduled runs
AutoAdvanceFire ==
    \E t \in timers :
        /\ clock >= t.deadline
        /\ handleNextProblem(t.problem, timers \ {t},
                             IF autoAdvanceTimeoutRef = t.id THEN Null ELSE autoAdvanceTimeoutRef,
                             [op |-> "autoAdvance", key |-> ""])

\* the delay of the timeout passes
AdvanceDelay ==
    /\ clock < MaxClock * AutoAdvanceDelayMs
    /\ clock' = clock + AutoAdvanceDelayMs
    /\ UNCHANGED <<prefVars, engVars, lastEvent, metricVars, pageVars>>

AdvanceNext ==
    \/ \E key \in Keys : PageKeyDown(key)
    \/ StartButton
    \/ Restart
    \/ Replay
    \/ Escape
    \/ NextProblem
    \/ AutoAdvanceFire
    \/ CountdownTick
    \/ TimerTick
    \/ AdvanceDelay

AdvanceSpec == AdvanceInit /\ [][AdvanceNext]_vars

\* ---------------------------------------------------------------------
\* The page stores a score when the session is finished: its effect depends
\* on the phase and on the two numbers of the published metrics it stores.
LeaderboardCap == 50

ScoreOf(metrics) == [wpm |-> metrics.adjustedWpm, accuracy |-> metrics.accuracy]

\* entries of the board that the sort by descending wpm keeps before a new one
RECURSIVE KeptBefore(_, _)
KeptBefore(board, entry) ==
    IF board = <<>> \/ ~FracLeq(entry.wpm, board[1].wpm) THEN 0
    ELSE 1 + KeptBefore(Tail(board), entry)

\* saveScore: append, sort by wpm (best first, equal ones in order of
\* arrival), keep the top 50
saveScore(board, entry) ==
    LET k == KeptBefore(board, entry)
        updated == SubSeq(board, 1, k) \o <<entry>> \o SubSeq(board, k + 1, Len(board))
    IN  SubSeq(updated, 1, IF Len(updated) < LeaderboardCap THEN Len(updated) ELSE LeaderboardCap)

\* the effect in the commit of an event that left the phase at newPhase and
\* showed the metrics `rendered`, and again in the commit that shows the
\* metrics `refreshed` which the engine's effects published in the first
saveEffects(oldPhase, newPhase, rendered, refreshed, board) ==
    LET first == IF newPhase = "finished" /\ newPhase # oldPhase
                 THEN saveScore(board, ScoreOf(rendered))
                 ELSE board
    IN  IF /\ newPhase = "finished"
           /\ \/ refreshed.adjustedWpm # rendered.adjustedWpm
              \/ refreshed.accuracy # rendered.accuracy
        THEN saveScore(first, ScoreOf(refreshed))
        ELSE first

ScoreContents == { <<"a", LF>>, <<"a", "a">> }

ScoreInit ==
    /\ EngineInit(ScoreContents)
    /\ requireTabForIndent = FALSE
    /\ metricsInput = NoInput
    /\ publishedMetrics = InitialMetrics
    /\ PageInit

\* an event, the commit, the effects of the engine and the effect of the page
ScoreCommitted(r, event) ==
    /\ CommitEngine(r, event)
    /\ leaderboard' = saveEffects(phase, r.phase, publishedMetrics,
                                  publishEffects(phase, r, snippet, clock, publishedMetrics),
                                  leaderboard)
    /\ UNCHANGED <<timers, autoAdvanceTimeoutRef, problemId>>

ScoreKeyDown(key) ==
    /\ totalKeystrokes < MaxKeys
    /\ Len(leaderboard) < MaxScores
    /\ ScoreCommitted(keyDownStep(Eng, key, clock), [op |-> "key", key |-> key])

ScoreReset ==
    LET r == commitEffects([reset(Eng, clock) EXCEPT !.finishCalls = 0])
    IN  ScoreCommitted(r, [op |-> "reset", key |-> ""])

ScoreStart ==
    /\ phase = "idle"
    /\ ScoreCommitted(commitEffects(start(Eng, clock)), [op |-> "start", key |-> ""])

ScoreCountdownTick ==
    /\ phase = "countdown"
    /\ countdown # Null
    /\ ScoreCommitted(commitEffects(countdownTick(Eng, clock)),
                      [op |-> "countdownTick", key |-> ""])

ScoreNext ==
    \/ \E key \in Keys : ScoreKeyDown(key)
    \/ ScoreReset
    \/ ScoreStart
    \/ ScoreCountdownTick
    \/ TimerTick
    \/ PublishTick
    \/ AdvanceClock

ScoreSpec == ScoreInit /\ [][ScoreNext]_vars

\* ===================================================================
\* Properties
\* ===================================================================
KeyEvent(k) == [op |-> "key", key |-> k]

\* this step is the delivery of key k (the clock alone leaves lastEvent as it was)
KeyStep(k) == lastEvent' = KeyEvent(k) /\ clock' = clock

\* C1: in every reachable state the cursor lies inside the content:
\* 0 <= cursorIndex <= content.length.
C1_CursorWithinContent ==
    /\ 0 <= cursorIndex
    /\ cursorIndex <= Len(content)

\* a printable key was pressed with the cursor already at the content end
C1_Witness ==
    /\ lastEvent = KeyEvent("a")
    /\ phase = "running"
    /\ cursorIndex = Len(content)
    /\ totalKeystrokes > totalTypedChars

\* C2: in every reachable state every index of wrongChars is >= 0 and
\* strictly below cursorIndex.
C2_WrongCharsBelowCursor ==
    \A i \in wrongChars : 0 <= i /\ i < cursorIndex

\* a Backspace has acted and an earlier mismatch is still marked
C2_Witness ==
    /\ lastEvent = KeyEvent("Backspace")
    /\ phase = "running"
    /\ totalKeystrokes = 3
    /\ cursorIndex = 1
    /\ wrongChars = {0}

\* ------------------------------------------------- vocabulary of the claims
\* a printable character or Enter
TypingKey(k) == k = "Enter" \/ Len(k) = 1

AtLineStart(i) == i = 0 \/ CharAt(content, i - 1) \in {LF, CR}

\* end of the run of spaces and tabs that starts at index i
RunEnd(i) ==
    CHOOSE j \in i..Len(content) :
        /\ \A m \in i..(j - 1) : CharAt(content, m) \in {SP, TAB}
        /\ CharAt(content, j) \notin {SP, TAB}

\* the rule for auto-indent at index i
ShouldAuto(i) ==
    /\ AtLineStart(i)
    /\ RunEnd(i) > i
    /\ \/ CharAt(content, RunEnd(i)) \in {LF, CR, Undefined}
       \/ ~requireTabForIndent

\* the index a typed key is compared at, and the expected character
CmpIndex == IF ShouldAuto(cursorIndex) THEN RunEnd(cursorIndex) ELSE cursorIndex
Expected == CharAt(content, CmpIndex)
AsNewline(ch) == IF ch = CR THEN LF ELSE ch
Matches(k) ==
    /\ Expected # Undefined
    /\ AsNewline(IF k = "Enter" THEN LF ELSE k) = AsNewline(Expected)

Accepting == phase \in {"idle", "running"}

\* C3 (as stated): the phase changes only along idle -> countdown (start,
\* countdown enabled), idle -> running (start with countdown disabled, or an
\* actionable key), countdown -> running (expiry), running -> finished
\* (completion), finished -> running (Backspace), any -> idle (reset).
C3_OnlyListedEdges ==
    [][ phase' # phase =>
          \/ phase = "idle" /\ phase' = "countdown"
                /\ lastEvent'.op = "start" /\ countdownEnabled
          \/ phase = "idle" /\ phase' = "running"
                /\ \/ lastEvent'.op = "start" /\ ~countdownEnabled
                   \/ lastEvent'.op = "key"
          \/ phase = "countdown" /\ phase' = "running" /\ lastEvent'.op = "countdownTick"
          \/ phase = "running" /\ phase' = "finished" /\ lastEvent'.op = "key"
          \/ phase = "finished" /\ phase' = "running" /\ lastEvent' = KeyEvent("Backspace")
          \/ phase' = "idle" /\ lastEvent'.op = "reset" ]_vars

\* C3 (amended): the listed edges, and two more: a first key that completes
\* the content takes idle straight to finished, and start() is honoured in
\* every phase (to countdown when the countdown is enabled, else to running).
C3_PhaseEdges ==
    [][ phase' # phase =>
          \/ lastEvent'.op = "start"
                /\ phase' = (IF countdownEnabled THEN "countdown" ELSE "running")
          \/ phase = "idle" /\ phase' = "running" /\ lastEvent'.op = "key"
          \/ phase = "idle" /\ phase' = "finished"
                /\ lastEvent'.op = "key" /\ TypingKey(lastEvent'.key)
          \/ phase = "countdown" /\ phase' = "running" /\ lastEvent'.op = "countdownTick"
          \/ phase = "running" /\ phase' = "finished" /\ lastEvent'.op = "key"
          \/ phase = "finished" /\ phase' = "running" /\ lastEvent' = KeyEvent("Backspace")
          \/ phase' = "idle" /\ lastEvent'.op = "reset" ]_vars

\* the first key of a run completed the content
C3_Witness ==
    /\ phase = "finished"
    /\ lastEvent.op = "key"
    /\ totalKeystrokes = 1
    /\ finishCalls = 1

\* C4: a printable or Enter key handled in idle or running moves the phase
\* to finished exactly when it matches the expected character and the new
\* cursorIndex is content.length, or content.length - 1 with a newline as
\* the one remaining character; no other key moves the phase to finished.
C4_FinishedExactlyOnCompletingMatch ==
    [][ \A k \in Keys : KeyStep(k) =>
          LET moved == phase # "finished" /\ phase' = "finished"
              n == Len(content)
          IN  IF TypingKey(k) /\ Accepting
              THEN moved <=>
                     /\ Matches(k)
                     /\ \/ cursorIndex' = n
                        \/ cursorIndex' = n - 1 /\ CharAt(content, n - 1) = LF
              ELSE ~moved ]_vars

\* finished with the trailing newline left untyped
C4_Witness ==
    /\ phase = "finished"
    /\ lastEvent = KeyEvent("a")
    /\ cursorIndex = Len(content) - 1
    /\ CharAt(content, cursorIndex) = LF

\* C5: within one run onFinish fires exactly once when the snippet is
\* completed and never more than once, also when finished is left with
\* Backspace and the snippet is completed again.
C5_FinishNotifiedOncePerRun ==
    /\ finishCalls <= 1
    /\ phase = "finished" => finishCalls = 1

\* C6: in idle or running with cursorIndex < content.length, a printable
\* or Enter key equal to the expected character (Enter as newline, carriage
\* return as newline on both sides) puts cursorIndex exactly 1 past the
\* compared index, counts 1 typed character and 1 correct keystroke for
\* itself (on top of the characters auto-skipped before the comparison) and
\* adds nothing to wrongChars or errorLog.
C6_MatchAdvances ==
    [][ \A k \in Keys :
          ( /\ KeyStep(k)
            /\ TypingKey(k)
            /\ Accepting
            /\ cursorIndex < Len(content)
            /\ Matches(k) ) =>
          /\ cursorIndex' = CmpIndex + 1
          /\ totalTypedChars' = totalTypedChars + (CmpIndex - cursorIndex) + 1
          /\ correctKeystrokes' = correctKeystrokes + 1
          /\ wrongChars' \subseteq wrongChars
          /\ errorLog' = errorLog ]_vars

\* Enter was accepted as the match of a carriage return
C6_Witness ==
    /\ lastEvent = KeyEvent("Enter")
    /\ cursorIndex = 2
    /\ CharAt(content, 1) = CR
    /\ correctKeystrokes = 2
    /\ wrongChars = {}

\* what a mismatched printable or Enter key does, apart from the phase
MismatchEffect(k) ==
    /\ cursorIndex' = CmpIndex + 1
    /\ totalTypedChars' = totalTypedChars + (CmpIndex - cursorIndex) + 1
    /\ CmpIndex \in wrongChars'
    /\ wrongChars' \subseteq wrongChars \cup {CmpIndex}
    /\ LET entry == [expected |-> Expected,
                     got |-> IF k = "Enter" THEN LF ELSE k,
                     index |-> CmpIndex]
           appended == Append(errorLog, entry)
       IN  errorLog' = IF Len(appended) > ErrorLogCap THEN Tail(appended) ELSE appended
    /\ lastErrorAt' = clock
    /\ correctKeystrokes' = correctKeystrokes

Mismatch(k) ==
    /\ KeyStep(k)
    /\ TypingKey(k)
    /\ Accepting
    /\ Expected # Undefined
    /\ ~Matches(k)

\* C7 (as stated): a printable or Enter key that differs from the expected
\* character puts cursorIndex 1 past the compared index, counts 1 typed
\* character, marks the compared index wrong, appends one entry to the
\* errorLog, sets lastErrorAt to the current time and leaves
\* correctKeystrokes and phase unchanged.
C7_MismatchKeepsPhase ==
    [][ \A k \in Keys : Mismatch(k) => MismatchEffect(k) /\ phase' = phase ]_vars

\* C7 (amended): as stated, except for the phase: it stays running, and a
\* mismatched first key in idle starts the run (idle to running); a
\* mismatch never moves the phase to finished.
C7_MismatchAdvances ==
    [][ \A k \in Keys : Mismatch(k) => MismatchEffect(k) /\ phase' = "running" ]_vars

\* a mismatch in a running session, after an earlier correct key
C7_Witness ==
    /\ lastEvent.op = "key"
    /\ phase = "running"
    /\ correctKeystrokes = 1
    /\ totalKeystrokes = 2
    /\ wrongChars = {1}
    /\ Len(errorLog) = 1
    /\ lastErrorAt = clock

\* C8: Backspace accepted in running or finished with cursorIndex > 0
\* takes exactly 1 off cursorIndex and removes the vacated index from
\* wrongChars, leaving totalTypedChars, correctKeystrokes and errorLog
\* unchanged; at cursorIndex 0 it changes none of the five.
C8_BackspaceStepsBack ==
    [][ KeyStep("Backspace") =>
          /\ (phase \in {"running", "finished"} /\ cursorIndex > 0) =>
                /\ cursorIndex' = cursorIndex - 1
                /\ wrongChars' = wrongChars \ {cursorIndex - 1}
                /\ UNCHANGED <<totalTypedChars, correctKeystrokes, errorLog>>
          /\ cursorIndex = 0 =>
                UNCHANGED <<cursorIndex, wrongChars, totalTypedChars,
                            correctKeystrokes, errorLog>> ]_vars

\* Backspace took back a mismatch
C8_Witness ==
    /\ lastEvent = KeyEvent("Backspace")
    /\ phase = "running"
    /\ totalKeystrokes = 2
    /\ cursorIndex = 0
    /\ wrongChars = {}
    /\ Len(errorLog) = 1

\* C9: from a running state with cursorIndex < content.length, a wrong
\* character, Backspace and the correct character give the same cursorIndex
\* and wrongChars as the correct character alone, with totalKeystrokes
\* larger by 2 and correctKeystrokes larger by exactly 1 than before.
C9_BackspaceRetypeRoundTrip ==
    (phase = "running" /\ cursorIndex < Len(content)) =>
        \A w, c \in {k \in Keys : TypingKey(k)} :
            (Matches(c) /\ ~Matches(w)) =>
                LET direct == keyDownStep(Eng, c, clock)
                    wrong == keyDownStep(Eng, w, clock)
                    back == keyDownStep(wrong, "Backspace", clock)
                    round == keyDownStep(back, c, clock)
                IN  /\ round.cursorIndex = direct.cursorIndex
                    /\ round.wrongChars = direct.wrongChars
                    /\ round.totalKeystrokes = direct.totalKeystrokes + 2
                    /\ round.correctKeystrokes = correctKeystrokes + 1

\* the corrected-mistake scenario: wrong key, Backspace, right key
C9_Witness ==
    /\ lastEvent = KeyEvent("a")
    /\ phase = "running"
    /\ totalKeystrokes = 3
    /\ correctKeystrokes = 1
    /\ cursorIndex = 1
    /\ wrongChars = {}
    /\ Len(errorLog) = 1

\* C10: on a Tab, printable or Enter key the cursor is auto-advanced over
\* a whitespace run exactly when cursorIndex is at a line start, the run of
\* spaces and tabs starting there is non-empty, and the run is followed by
\* newline, carriage return or the end of the content or requireTabForIndent
\* is off; the whole run is skipped; otherwise the cursor moves only by what
\* the key itself consumes.
C10_AutoIndentRule ==
    [][ \A k \in Keys :
          (KeyStep(k) /\ (k = "Tab" \/ TypingKey(k)) /\ Accepting) =>
          LET c == cursorIndex
              e == RunEnd(c)
              a == autoAdvanceIndentationIfAllowed(c)
          IN  /\ a.advanced > 0 <=> ShouldAuto(c)
              /\ IF ShouldAuto(c)
                 THEN /\ a.nextIndex = e
                      /\ IF k = "Tab"
                         THEN cursorIndex' = e /\ correctKeystrokes' = correctKeystrokes
                         ELSE cursorIndex' = IF e < Len(content) THEN e + 1 ELSE e
                 ELSE IF k = "Tab"
                      THEN \/ cursorIndex' = c
                           \/ /\ cursorIndex' - c \in 1..INDENT_WIDTH
                              /\ correctKeystrokes' = correctKeystrokes + 1
                      ELSE cursorIndex' = IF c < Len(content) THEN c + 1 ELSE c ]_vars

\* a printable key after a newline skipped two spaces of indentation
C10_Witness ==
    /\ lastEvent = KeyEvent("a")
    /\ ~requireTabForIndent
    /\ content = <<"a", LF, SP, SP, "a">>
    /\ cursorIndex = 5
    /\ totalKeystrokes = 3
    /\ totalTypedChars = 5

\* the number of spaces a manual Tab consumes at index i
SpaceRun(i) ==
    CHOOSE n \in 0..INDENT_WIDTH :
        /\ \A m \in 0..(n - 1) : CharAt(content, i + m) = SP
        /\ n = INDENT_WIDTH \/ CharAt(content, i + n) # SP

\* C11: when a Tab, printable or Enter key triggers auto-indent over a run
\* of k whitespace characters, the skipped characters add exactly k to
\* totalTypedChars (the key adds 1 more for itself when it is compared with a
\* character) and nothing to totalKeystrokes or correctKeystrokes beyond the
\* key's own count, and no skipped index remains in wrongChars.
C11_AutoIndentIsFree ==
    [][ \A key \in Keys :
          ( /\ KeyStep(key)
            /\ key = "Tab" \/ TypingKey(key)
            /\ Accepting
            /\ ShouldAuto(cursorIndex) ) =>
          LET e == RunEnd(cursorIndex)
              k == e - cursorIndex
              compared == TypingKey(key) /\ CharAt(content, e) # Undefined
              own == IF compared THEN 1 ELSE 0
              ownCorrect == IF compared /\ Matches(key) THEN 1 ELSE 0
          IN  /\ totalTypedChars' = totalTypedChars + k + own
              /\ totalKeystrokes' = totalKeystrokes + 1
              /\ correctKeystrokes' = correctKeystrokes + ownCorrect
              /\ \A i \in cursorIndex..(e - 1) : i \notin wrongChars' ]_vars

\* C12: a Tab handled in idle or running for which auto-indent does not
\* apply consumes n = min(4, spaces starting at cursorIndex) characters:
\* cursorIndex and totalTypedChars grow by n and correctKeystrokes by 1 when
\* n > 0; with n = 0 and a tab character next, that one character is consumed
\* as a correct match; otherwise the three are unchanged.  No Tab, in any
\* phase, adds to wrongChars or errorLog.
C12_ManualTab ==
    [][ KeyStep("Tab") =>
          /\ wrongChars' \subseteq wrongChars
          /\ errorLog' = errorLog
          /\ (Accepting /\ ~ShouldAuto(cursorIndex)) =>
                LET n == SpaceRun(cursorIndex)
                IN  IF n > 0
                    THEN /\ cursorIndex' = cursorIndex + n
                         /\ totalTypedChars' = totalTypedChars + n
                         /\ correctKeystrokes' = correctKeystrokes + 1
                    ELSE IF CharAt(content, cursorIndex) = TAB
                    THEN /\ cursorIndex' = cursorIndex + 1
                         /\ totalTypedChars' = totalTypedChars + 1
                         /\ correctKeystrokes' = correctKeystrokes + 1
                    ELSE UNCHANGED <<cursorIndex, totalTypedChars, correctKeystrokes>> ]_vars

\* two Tabs typed five spaces of indentation: four, then the one left
C12_Witness ==
    /\ lastEvent = KeyEvent("Tab")
    /\ requireTabForIndent
    /\ content = <<SP, SP, SP, SP, SP, "a">>
    /\ cursorIndex = 5
    /\ totalTypedChars = 5
    /\ totalKeystrokes = 2
    /\ correctKeystrokes = 2

\* C13: every actionable key (single printable character, Backspace,
\* Enter, Tab) that is not rejected (countdown; finished, unless Backspace)
\* adds exactly 1 to totalKeystrokes, also when it changes nothing else; every
\* other key leaves it alone, and apart from keys only reset changes it.
C13_KeystrokeCount ==
    [][ /\ \A k \in Keys : KeyStep(k) =>
              LET counted == k \in {"Tab", "Backspace", "Enter"} \/ Len(k) = 1
                  rejected == \/ phase = "countdown"
                              \/ phase = "finished" /\ k # "Backspace"
              IN  totalKeystrokes' =
                      IF counted /\ ~rejected THEN totalKeystrokes + 1 ELSE totalKeystrokes
        /\ totalKeystrokes' # totalKeystrokes => lastEvent'.op \in {"key", "reset"}
        /\ (lastEvent'.op = "reset" /\ lastEvent' # lastEvent) => totalKeystrokes' = 0 ]_vars

\* keys that changed nothing else were counted: two keys on an untouched
\* content, the last of them a Backspace at index 0
C13_Witness ==
    /\ lastEvent = KeyEvent("Backspace")
    /\ phase = "running"
    /\ cursorIndex = 0
    /\ totalTypedChars = 0
    /\ totalKeystrokes = 2

\* an actionable key is delivered in phase idle
IdleKey(k) ==
    /\ KeyStep(k)
    /\ phase = "idle"
    /\ k \in {"Tab", "Backspace", "Enter"} \/ Len(k) = 1

\* the key completes the content
Completes(k) ==
    /\ TypingKey(k)
    /\ Matches(k)
    /\ \/ CmpIndex + 1 >= Len(content)
       \/ CmpIndex + 1 = Len(content) - 1 /\ CharAt(content, CmpIndex + 1) = LF

\* what an actionable key in idle does apart from the phase: the start time
\* is recorded when unset, and the key is counted and handled against the
\* content like any key of a run
IdleKeyEffect(k) ==
    /\ startTime' = IF startTime = Null THEN clock ELSE startTime
    /\ totalKeystrokes' = totalKeystrokes + 1
    /\ (TypingKey(k) /\ Expected # Undefined) =>
          /\ cursorIndex' = CmpIndex + 1
          /\ correctKeystrokes' = correctKeystrokes + (IF Matches(k) THEN 1 ELSE 0)
          /\ CmpIndex \in wrongChars' <=> ~Matches(k)
    /\ (k = "Tab" /\ ~ShouldAuto(cursorIndex)) =>
          cursorIndex' = cursorIndex +
              (IF SpaceRun(cursorIndex) > 0 THEN SpaceRun(cursorIndex)
               ELSE IF CharAt(content, cursorIndex) = TAB THEN 1 ELSE 0)

\* keys after the first never overwrite the start time
LaterKeysKeepStartTime ==
    \A k \in Keys : (KeyStep(k) /\ phase # "idle") => startTime' = startTime

\* C14 (as stated): an actionable key received in idle moves the phase to
\* running, records startTime if and only if it is unset, and is handled
\* against the content in the same step; later keys of the run never
\* overwrite startTime.
C14_IdleKeyEndsInRunning ==
    [][ /\ \A k \in Keys : IdleKey(k) => IdleKeyEffect(k) /\ phase' = "running"
        /\ LaterKeysKeepStartTime ]_vars

\* C14 (amended): as stated, except that the step ends in finished, not
\* running, when the key handled in it completes the content.
C14_IdleKeyStartsRun ==
    [][ /\ \A k \in Keys :
              IdleKey(k) =>
                  /\ IdleKeyEffect(k)
                  /\ phase' = IF Completes(k) THEN "finished" ELSE "running"
        /\ LaterKeysKeepStartTime ]_vars

\* the first key, pressed at time 1 in idle, started the run and was
\* compared, and a mismatch at time 2 left the start time alone
C14_Witness ==
    /\ lastEvent.op = "key"
    /\ phase = "running"
    /\ startTime = 1
    /\ clock = 2
    /\ lastErrorAt = 2
    /\ totalKeystrokes = 2
    /\ cursorIndex = 2

\* C15: in phase finished every key other than Backspace (printable,
\* Enter, Tab, or any other) leaves the whole session state unchanged.
C15_FinishedRejectsKeys ==
    phase = "finished" =>
        \A k \in Keys \ {"Backspace"} : keyDownStep(Eng, k, clock) = Eng

\* a key was delivered to a finished session
C15_Witness ==
    /\ phase = "finished"
    /\ lastEvent = KeyEvent("a")
    /\ totalKeystrokes = 1
    /\ cursorIndex = 1
    /\ clock = 2
    /\ now = 1

\* C16: in every phase a modifier-only key (Meta, Alt, Control) leaves the
\* whole session state unchanged.
C16_ModifiersIgnored ==
    \A k \in Modifiers : keyDownStep(Eng, k, clock) = Eng

\* a modifier was delivered during the countdown
C16_Witness ==
    /\ lastEvent = KeyEvent("Meta")
    /\ phase = "countdown"
    /\ countdown = 2
    /\ totalKeystrokes = 0

\* the zero state of a session
ZeroState(r) ==
    /\ r.phase = "idle"
    /\ r.countdown = Null
    /\ r.cursorIndex = 0
    /\ r.wrongChars = {}
    /\ r.startTime = Null
    /\ r.lastErrorAt = Null
    /\ r.errorLog = <<>>
    /\ r.totalTypedChars = 0
    /\ r.totalKeystrokes = 0
    /\ r.correctKeystrokes = 0

\* C17: reset() called in any reachable state yields the zero state, and
\* a second reset() changes nothing.
C17_ResetZeroes ==
    /\ lastEvent.op = "reset" => ZeroState(Eng)
    /\ LET once == commitEffects(reset(Eng, clock))
           twice == commitEffects(reset(once, clock))
       IN  ZeroState(once) /\ twice = once

\* a reset at time 2
C17_Witness ==
    /\ lastEvent.op = "reset"
    /\ phase = "idle"
    /\ now = 2
    /\ cursorIndex = 0
    /\ errorLog = <<>>

KeepLast(seq) ==
    IF Len(seq) <= ErrorLogCap THEN seq
    ELSE SubSeq(seq, Len(seq) - ErrorLogCap + 1, Len(seq))

\* C19: the errorLog holds the most recent min(n, 200) of the n mismatches
\* made since the last reset, in the order they occurred: it is empty after
\* a reset, every mismatch appends its entry at the end and, at 200 entries,
\* drops the oldest one, nothing else changes it, and its length never
\* exceeds 200.
C19_ErrorLogKeepsLast200 ==
    [][ /\ Len(errorLog') <= ErrorLogCap
        /\ \A k \in Keys :
              Mismatch(k) =>
                  errorLog' = KeepLast(Append(errorLog,
                                  [expected |-> Expected,
                                   got |-> IF k = "Enter" THEN LF ELSE k,
                                   index |-> CmpIndex]))
        /\ lastEvent'.op = "reset" => errorLog' = <<>>
        /\ (lastEvent'.op # "reset" /\ \A k \in Keys : ~Mismatch(k)) =>
              errorLog' = errorLog ]_vars

\* 202 mistakes in one run: the log is full, the two oldest entries are
\* gone and the newest, an Enter mistake, is the last entry
C19_Witness ==
    /\ Len(errorLog) = ErrorLogCap
    /\ totalKeystrokes > 2 * ErrorLogCap + 1
    /\ lastEvent = KeyEvent("Enter")
    /\ errorLog[ErrorLogCap].got = LF
    /\ errorLog[1].got = SP

\* C20: two keys handled back to back, before the commit whose effects
\* refresh cursorIndexRef, leave the same cursorIndex, wrongChars, counters
\* and errorLog as the same two keys with a commit between them.
C20_BackToBackKeysAsSequential ==
    \A k1, k2 \in Keys :
        LET backToBack == commitEffects(handleKeyDown(handleKeyDown(Eng, k1, clock), k2, clock))
            sequential == keyDownStep(keyDownStep(Eng, k1, clock), k2, clock)
        IN  /\ backToBack.cursorIndex = sequential.cursorIndex
            /\ backToBack.wrongChars = sequential.wrongChars
            /\ backToBack.totalTypedChars = sequential.totalTypedChars
            /\ backToBack.totalKeystrokes = sequential.totalKeystrokes
            /\ backToBack.correctKeystrokes = sequential.correctKeystrokes
            /\ backToBack.errorLog = sequential.errorLog

\* C21: with cursorIndex at content.length in phase running, a printable,
\* Enter or Tab key leaves phase, cursorIndex, wrongChars, totalTypedChars,
\* correctKeystrokes and errorLog unchanged; the cursor never passes the end.
C21_KeysAtEndChangeNothing ==
    [][ \A k \in {key \in Keys : key = "Tab" \/ TypingKey(key)} :
            (phase = "running" /\ cursorIndex = Len(content) /\ KeyStep(k)) =>
                /\ cursorIndex' = Len(content)
                /\ UNCHANGED <<phase, cursorIndex, wrongChars, totalTypedChars,
                               correctKeystrokes, errorLog>>
      ]_vars

\* a Tab was pressed with the cursor at the end, after a mismatch on the
\* last character
C21_Witness ==
    /\ lastEvent = KeyEvent("Tab")
    /\ phase = "running"
    /\ Len(content) = 2
    /\ cursorIndex = 2
    /\ wrongChars = {1}
    /\ totalKeystrokes = 3
    /\ totalTypedChars = 2

\* C22 (as stated): with empty content the cursor stays at 0 and the
\* content counts as already complete: a run that has entered running ends
\* in phase finished (or is reset) and does not stay in running for ever.
C22_EmptyContentFinishes ==
    /\ [](Len(content) = 0 => cursorIndex = 0)
    /\ ((Len(content) = 0 /\ phase = "running") ~> (phase \in {"finished", "idle"}))

\* this step is a call of start(): the Start button, or the restart shortcut
StartStep == lastEvent'.op \in {"start", "restart"} /\ clock' = clock

\* C23: start() leads to phase running with startTime recorded at the
\* moment running is entered: at once when the countdown is disabled; when
\* it is enabled the phase first becomes countdown with counter 3 and no
\* startTime yet, the counter only goes down by 1 per tick, every entry into
\* running records the time of that step, and, unless a reset intervenes,
\* a countdown eventually reaches running.
C23_StartLeadsToRunning ==
    /\ [][ /\ (StartStep /\ ~countdownEnabled) =>
                (phase' = "running" /\ startTime' = clock /\ countdown' = countdown)
           /\ (StartStep /\ countdownEnabled) =>
                (phase' = "countdown" /\ countdown' = CountdownStart
                    /\ startTime' \in {startTime, Null})
           /\ (phase = "countdown" /\ phase' = "countdown" /\ countdown' # countdown) =>
                (countdown' = countdown - 1 \/ StartStep)
           /\ (phase = "countdown" /\ lastEvent'.op = "countdownTick" /\ clock' = clock) =>
                \/ countdown > 1 /\ phase' = "countdown" /\ countdown' = countdown - 1
                \/ countdown = 1 /\ phase' = "running" /\ countdown' = Null
           /\ (phase \in {"idle", "countdown"} /\ phase' = "running") => startTime' = clock
         ]_vars
    /\ (phase = "countdown") ~> (phase = "running" \/ lastEvent.op \in {"reset", "restart"})

\* the third tick of a countdown entered running later than start() was
\* called, and startTime is the time of that tick
C23_Witness ==
    /\ countdownEnabled
    /\ lastEvent.op = "countdownTick"
    /\ phase = "running"
    /\ countdown = Null
    /\ clock = MaxClock
    /\ startTime = clock
    /\ now = clock

\* the times the clock of FlashSpec can show
FlashTimes == { 1 + k * FlashMs : k \in 0..MaxClock }

\* C24 (as stated): caretErrorActive is true from a mismatch on, and once
\* 600 ms have passed since the most recent mismatch without a new one the
\* output eventually reports false, in every phase, also when the run has
\* finished in the meantime.
C24_FlashEnds ==
    /\ [][ (\E k \in Keys : KeyStep(k)) /\ lastErrorAt' # lastErrorAt
                => caretErrorActive(Eng)' ]_vars
    /\ \A t \in FlashTimes :
          [](lastErrorAt = t /\ clock - t >= FlashMs
                => <>(~caretErrorActive(Eng) \/ lastErrorAt # t))

\* computeMetrics has been applied to metricsInput
Computed == lastEvent.op = "computeMetrics"

\* C25: for every input with elapsedMs <= 0, computeMetrics returns
\* rawWpm = 0, adjustedWpm = 0 and accuracy = 1, whatever the counters are.
C25_NoTimeNoSpeed ==
    (Computed /\ metricsInput.elapsedMs <= 0) =>
        /\ publishedMetrics.rawWpm = Num(0)
        /\ publishedMetrics.adjustedWpm = Num(0)
        /\ publishedMetrics.accuracy = Num(1)

\* no time has passed, and the counters alone would give an accuracy of 0
C25_Witness ==
    /\ Computed
    /\ metricsInput.elapsedMs = 0
    /\ metricsInput.totalTyped = MaxCount
    /\ metricsInput.totalKeystrokes = Given(MaxCount)
    /\ metricsInput.correctKeystrokes = Given(0)
    /\ publishedMetrics.accuracy = Num(1)

\* C26: for elapsedMs > 0 computeMetrics agrees with the reference formulas:
\* rawWpm * elapsedMs * 5 = K * 60000 with K = totalKeystrokes (totalTyped
\* when totalKeystrokes is absent); adjustedWpm * elapsedMs * 5 =
\* max(0, correctProgress) * 60000; accuracy = 1 when totalKeystrokes is
\* absent or <= 0, otherwise min(1, correctKeystrokes / totalKeystrokes)
\* (for a correctKeystrokes that is given).
C26_ReferenceFormulas ==
    (Computed /\ metricsInput.elapsedMs > 0) =>
        LET i == metricsInput
            m == publishedMetrics
            K == IF i.totalKeystrokes = Absent THEN i.totalTyped ELSE i.totalKeystrokes[1]
            P == IF i.correctProgress > 0 THEN i.correctProgress ELSE 0
        IN  /\ FracMul(m.rawWpm, Num(i.elapsedMs * 5)) = Num(K * 60000)
            /\ FracMul(m.adjustedWpm, Num(i.elapsedMs * 5)) = Num(P * 60000)
            /\ (i.totalKeystrokes = Absent \/ i.totalKeystrokes[1] <= 0)
                    => m.accuracy = Num(1)
            /\ (i.totalKeystrokes # Absent /\ i.totalKeystrokes[1] > 0
                    /\ i.correctKeystrokes # Absent) =>
                    IF i.correctKeystrokes[1] >= i.totalKeystrokes[1]
                    THEN m.accuracy = Num(1)
                    ELSE FracMul(m.accuracy, Num(i.totalKeystrokes[1]))
                            = Num(i.correctKeystrokes[1])

\* 3 keystrokes, 2 of them correct, 1 character of progress, in 7 ms
C26_Witness ==
    /\ Computed
    /\ metricsInput.elapsedMs = 7
    /\ metricsInput.totalKeystrokes = Given(3)
    /\ metricsInput.correctKeystrokes = Given(2)
    /\ metricsInput.correctProgress = 1
    /\ publishedMetrics.rawWpm = [num |-> 36000, den |-> 7]
    /\ publishedMetrics.adjustedWpm = [num |-> 12000, den |-> 7]
    /\ publishedMetrics.accuracy = [num |-> 2, den |-> 3]

\* white space in the content: the characters the engine treats as blanks
\* and line ends
Whitespace == {SP, TAB, LF, CR}

\* the words of c: the maximal runs [s, e) of non-whitespace characters
WordsOf(c) ==
    { w \in (0..Len(c)) \X (0..Len(c)) :
        /\ w[1] < w[2]
        /\ \A i \in w[1]..(w[2] - 1) : CharAt(c, i) \notin Whitespace
        /\ w[1] = 0 \/ CharAt(c, w[1] - 1) \in Whitespace
        /\ w[2] = Len(c) \/ CharAt(c, w[2]) \in Whitespace }

\* the indices that count: those of the words passed without a wrong index,
\* and the separator after such a word when passed and not wrong
CountedIndices(c, idx, errs) ==
    { i \in 0..Len(c) :
        \E w \in WordsOf(c) :
            /\ w[2] <= idx
            /\ \A j \in w[1]..(w[2] - 1) : j \notin errs
            /\ \/ w[1] <= i /\ i < w[2]
               \/ i = w[2] /\ w[2] < idx /\ i \notin errs }

CorrectKey(i) ==
    IF CharAt(content, i) \in {LF, CR} THEN "Enter" ELSE CharAt(content, i)

\* the index of the last character that has to be typed: a final newline is
\* not required
LastRequired ==
    IF Len(content) >= 2 /\ CharAt(content, Len(content) - 1) = LF
    THEN Len(content) - 2
    ELSE Len(content) - 1

\* nothing but the first cursorIndex characters has been typed, each correctly
TypedCleanly ==
    /\ phase \in {"idle", "running"}
    /\ wrongChars = {}
    /\ errorLog = <<>>
    /\ totalKeystrokes = cursorIndex
    /\ correctKeystrokes = cursorIndex

\* the arguments of computeMetrics for the current state at time ts
CurrentInput(ts) ==
    [correctProgress |-> getPerfectWordChars(snippet, cursorIndex, wrongChars),
     elapsedMs |-> IF startTime # Null THEN ts - startTime ELSE 0,
     totalTyped |-> totalTypedChars,
     totalKeystrokes |-> Given(totalKeystrokes),
     correctKeystrokes |-> Given(correctKeystrokes)]

\* C28: typing every character of the content correctly in order from idle
\* (words separated by single separators, no auto-indent) keeps wrongChars
\* and errorLog empty and the counters equal to the number of keys pressed;
\* the phase becomes finished on the last required key and not before, and
\* then correctProgress equals the number of keys, so that the published
\* rawWpm equals adjustedWpm and accuracy is 1.
C28_CleanRun ==
    [][ (TypedCleanly /\ cursorIndex <= LastRequired /\ KeyStep(CorrectKey(cursorIndex))) =>
            /\ wrongChars' = {}
            /\ errorLog' = <<>>
            /\ cursorIndex' = cursorIndex + 1
            /\ totalKeystrokes' = cursorIndex'
            /\ correctKeystrokes' = cursorIndex'
            /\ IF cursorIndex = LastRequired
               THEN /\ phase' = "finished"
                    /\ getPerfectWordChars(snippet', cursorIndex', wrongChars') = totalKeystrokes'
                    /\ publishedMetrics'.rawWpm = publishedMetrics'.adjustedWpm
                    /\ publishedMetrics'.accuracy = Num(1)
               ELSE phase' = "running"
      ]_vars

\* three correct keys, the last one a millisecond after the first, finished
\* "a a": 3 keystrokes in 1 ms
C28_Witness ==
    /\ content = <<"a", SP, "a">>
    /\ lastEvent = KeyEvent("a")
    /\ phase = "finished"
    /\ wrongChars = {} /\ errorLog = <<>>
    /\ totalKeystrokes = 3 /\ correctKeystrokes = 3
    /\ startTime = 1 /\ clock = 2
    /\ publishedMetrics.rawWpm = Num(36000)
    /\ publishedMetrics.adjustedWpm = Num(36000)
    /\ publishedMetrics.accuracy = Num(1)

ResetStep ==
    /\ lastEvent'.op \in {"reset", "resetThenCountdownTick", "resetThenTimerTick"}
    /\ clock' = clock

\* C30: after reset() is called during countdown or running no pending
\* countdown or tick timer changes the state: the reset leaves the zero
\* state in phase idle also when a timer callback fires behind it, and the
\* zero state stays until the next start() or actionable key.
C30_ResetCancelsTimers ==
    [][ /\ (ResetStep /\ phase \in {"countdown", "running"}) => ZeroState(Eng)'
        /\ (ZeroState(Eng) /\ ~StartStep /\ ~(\E k \in Keys : IdleKey(k))) => ZeroState(Eng)'
      ]_vars

\* a countdown was reset while its interval callback was about to fire, and
\* time has passed since
C30_Witness ==
    /\ lastEvent.op = "resetThenCountdownTick"
    /\ ZeroState(Eng)
    /\ now < clock

\* this step is a callback of the 100 ms timer
TimerStep == lastEvent'.op = "timerTick" /\ clock' = clock

\* C31: the periodic timer tick changes only the engine's notion of the
\* current time: it sets now and leaves phase, cursorIndex, wrongChars,
\* startTime, errorLog, totalTypedChars, totalKeystrokes and
\* correctKeystrokes unchanged.
C31_TimerTickOnlySetsNow ==
    [][ TimerStep =>
            /\ now' = clock
            /\ UNCHANGED <<phase, countdown, cursorIndex, wrongChars, startTime, lastErrorAt,
                           errorLog, totalTypedChars, totalKeystrokes, correctKeystrokes>>
      ]_vars

\* a tick during a run with a mistake outstanding, later than its start
C31_Witness ==
    /\ lastEvent.op = "timerTick"
    /\ phase = "running"
    /\ startTime = 1
    /\ now = MaxClock
    /\ cursorIndex = 1
    /\ wrongChars = {0}
    /\ totalKeystrokes = 1
    /\ Len(errorLog) = 1

\* this step is a call of reset(), alone or followed by start()
ResetCall == lastEvent'.op \in {"reset", "restart"} /\ clock' = clock

\* C32: between two resets totalTypedChars, totalKeystrokes and
\* correctKeystrokes never decrease: no key (Backspace included), start()
\* or timer event lowers any of them.
C32_CountersNeverDecrease ==
    [][ ~ResetCall =>
            /\ totalTypedChars' >= totalTypedChars
            /\ totalKeystrokes' >= totalKeystrokes
            /\ correctKeystrokes' >= correctKeystrokes
      ]_vars

\* Backspace took the cursor back and the counters stayed
C32_Witness ==
    /\ lastEvent = KeyEvent("Backspace")
    /\ phase = "running"
    /\ cursorIndex = 0
    /\ totalTypedChars = 1
    /\ totalKeystrokes = 2
    /\ correctKeystrokes = 1

C34_FinishedAtEnd ==
    [](phase = "finished" =>
          \/ cursorIndex = Len(content)
          \/ cursorIndex = Len(content) - 1 /\ CharAt(content, Len(content) - 1) = LF)

\* a run finished before its final newline
C34_Witness ==
    /\ phase = "finished"
    /\ content = <<"a", LF>>
    /\ cursorIndex = 1
    /\ lastEvent = KeyEvent("a")

\* C35: in every reachable state with phase idle the session state is zero:
\* cursorIndex 0, wrongChars empty, startTime null, errorLog empty and all
\* three counters 0.
C35_IdleIsZero ==
    [](phase = "idle" =>
          /\ cursorIndex = 0
          /\ wrongChars = {}
          /\ startTime = Null
          /\ errorLog = <<>>
          /\ totalTypedChars = 0
          /\ totalKeystrokes = 0
          /\ correctKeystrokes = 0)

\* idle again after a run with a mistake was reset, at a later time
C35_Witness ==
    /\ lastEvent.op = "reset"
    /\ phase = "idle"
    /\ clock = MaxClock
    /\ now = MaxClock
    /\ Len(content) = 5
    /\ errorLog = <<>>
    /\ totalKeystrokes = 0


\* C36: while the phase is countdown a key of any kind (Tab, printable,
\* Enter, Backspace, modifier) leaves phase, countdown, cursorIndex,
\* wrongChars, startTime, the three counters and errorLog unchanged, and
\* the countdown phase is left only by the expiring tick or by reset()
C36_CountdownIgnoresKeys ==
    [][ phase = "countdown" =>
          /\ \A key \in Keys : KeyStep(key) =>
                 UNCHANGED <<phase, countdown, cursorIndex, wrongChars, startTime,
                             totalTypedChars, totalKeystrokes, correctKeystrokes,
                             errorLog>>
          /\ phase' # "countdown" =>
                 \/ lastEvent'.op = "countdownTick" /\ countdown = 1 /\ phase' = "running"
                 \/ lastEvent'.op = "reset" /\ phase' = "idle" ]_vars

\* Tab pressed in the middle of the countdown on a content that starts with a tab
C36_Witness ==
    /\ lastEvent = KeyEvent("Tab")
    /\ phase = "countdown"
    /\ countdown = 2
    /\ content = <<TAB, "a">>
    /\ cursorIndex = 0
    /\ totalKeystrokes = 0


\* C37 (as stated): on every non-empty content, with either value of
\* requireTabForIndent, the typist who always presses the matching key
\* eventually reaches phase finished.
C37_MatchingKeysFinish == <>(phase = "finished")


\* this step is an auto-advance timeout switching to the next problem
AutoAdvanceStep == lastEvent'.op = "autoAdvance" /\ problemId' # problemId

\* C38 (as stated): the auto-advance timer switches to the next problem only
\* while the session is still finished for that run, never after a Backspace
\* back to running or after a reset, and at most one auto-advance timer is
\* pending at any time.
C38_AutoAdvanceOnlyWhileFinished ==
    /\ [](Cardinality(timers) <= 1)
    /\ [][AutoAdvanceStep => phase = "finished"]_vars


\* C39 (as stated): each completed run adds exactly one entry to the
\* leaderboard: the step that enters finished stores one entry, made of the
\* final metrics of the run, and nothing is stored while the phase stays
\* finished, also not when the published metrics are refreshed.
C39_OneEntryPerRun ==
    [][ /\ (phase # "finished" /\ phase' = "finished") =>
              leaderboard' = saveScore(leaderboard, ScoreOf(publishedMetrics'))
        /\ (phase = "finished" /\ phase' = "finished") =>
              leaderboard' = leaderboard
      ]_vars

====
